---- MODULE Spec2Model ----
(***************************************************************************)
(* tedx-2026, apps/www: the Astro site configuration (astro.config.mjs)    *)
(* and the layout rules of the visual CSS guide (docs/visual-css.md).      *)
(*                                                                         *)
(* Four independent state machines share this module:                      *)
(*   Spec        evaluations of the module astro.config.mjs                *)
(*   SpecImage   the .image box of sections 4 and 5 under viewport resizes *)
(*               and image loads                                           *)
(*   SpecAnchor  the absolutely positioned element of section 3 inside its *)
(*               relative parent                                           *)
(*   SpecGuide   a stylesheet assembled from the snippets the guide        *)
(*               recommends                                                *)
(* Lengths are fixed-point: UnitsPerPx layout units per CSS px, so that    *)
(* 30vw (3/10 of a px per viewport px), 50% and the ratio 4/3 are exact.   *)
(***************************************************************************)
EXTENDS Integers, Sequences, FiniteSets, TLC

VARIABLES
    pc,         \* config: each evaluation's position in astro.config.mjs
    bindings,   \* config: each evaluation's imported names
    obj,        \* config: each evaluation's object literal, as built so far
    exported,   \* config: each evaluation's default export (<<>> or <<config>>)
    viewport,   \* image: viewport width, in px
    image,      \* image: [loaded, iw, ih] the <img> resource and its intrinsic size
    box,        \* image: [width, height] the used size of the .image box
    painted,    \* image: size of the bitmap as painted into the <img> box
    parent,     \* anchor: [w, h] the padding box of the relative parent
    elem,       \* anchor: [w, h] the border box of the absolute child
    rule,       \* anchor: which snippet of section 3 is applied
    offset,     \* anchor: [x, y] top-left corner of the child after transform
    sheet       \* guide: the set of guide snippets adopted into the stylesheet

configVars == <<pc, bindings, obj, exported>>
imageVars  == <<viewport, image, box, painted>>
anchorVars == <<parent, elem, rule, offset>>
guideVars  == <<sheet>>
vars == <<pc, bindings, obj, exported, viewport, image, box, painted,
          parent, elem, rule, offset, sheet>>

(***************************************************************************)
(* Bounds                                                                  *)
(***************************************************************************)
\* number of evaluations of astro.config.mjs (dev server, build, tooling)
NumEvals == 3

Evals == 1..NumEvals

(***************************************************************************)
(* astro.config.mjs                                                        *)
(***************************************************************************)
\* "https://tedxuniversitasbrawijaya.com", one element per character
SiteOrigin ==
    <<"h","t","t","p","s",":","/","/",
      "t","e","d","x","u","n","i","v","e","r","s","i","t","a","s",
      "b","r","a","w","i","j","a","y","a",".","c","o","m">>

\* the integration object the default export of @astrojs/cloudflare returns
cloudflare == [name |-> "@astrojs/cloudflare"]

\* the integration object the default export of @astrojs/sitemap returns
sitemap == [name |-> "@astrojs/sitemap"]

\* astro/config's defineConfig returns the object it is given
defineConfig(config) == config

EmptyObject == [k \in {} |-> k]

ConfigInit ==
    /\ pc = [e \in Evals |-> "import"]
    /\ bindings = [e \in Evals |-> {}]
    /\ obj = [e \in Evals |-> EmptyObject]
    /\ exported = [e \in Evals |-> <<>>]

\* lines 1-3: the static imports are bound before the module body runs
Import(e) ==
    /\ pc[e] = "import"
    /\ bindings' = [bindings EXCEPT ![e] = {"cloudflare", "sitemap", "defineConfig"}]
    /\ pc' = [pc EXCEPT ![e] = "site"]
    /\ UNCHANGED <<obj, exported, imageVars, anchorVars, guideVars>>

\* the origin written without its scheme: "tedxuniversitasbrawijaya.com"
EvalSite_NoScheme(e) ==
    /\ pc[e] = "site"
    /\ obj' = [obj EXCEPT ![e] = @ @@ ("site" :> SubSeq(SiteOrigin, 9, Len(SiteOrigin)))]
    /\ pc' = [pc EXCEPT ![e] = "adapter"]
    /\ UNCHANGED <<bindings, exported, imageVars, anchorVars, guideVars>>

\* line 7: the first property of the literal
EvalSite(e) ==
    /\ pc[e] = "site"
    /\ obj' = [obj EXCEPT ![e] = @ @@ ("site" :> SiteOrigin)]
    /\ pc' = [pc EXCEPT ![e] = "adapter"]
    /\ UNCHANGED <<bindings, exported, imageVars, anchorVars, guideVars>>

\* line 8: adapter: cloudflare()
EvalAdapter(e) ==
    /\ pc[e] = "adapter"
    /\ "cloudflare" \in bindings[e]
    /\ obj' = [obj EXCEPT ![e] = @ @@ ("adapter" :> cloudflare)]
    /\ pc' = [pc EXCEPT ![e] = "integrations"]
    /\ UNCHANGED <<bindings, exported, imageVars, anchorVars, guideVars>>

\* a module-level integrations array shared by the evaluations: each evaluation
\* pushes onto what the finished ones left there
EvalIntegrations_Shared(e) ==
    /\ pc[e] = "integrations"
    /\ "sitemap" \in bindings[e]
    /\ LET n == Cardinality({f \in Evals : pc[f] = "done"})
       IN  obj' = [obj EXCEPT ![e] =
                     @ @@ ("integrations" :> [i \in 1..(n + 1) |-> sitemap])]
    /\ pc' = [pc EXCEPT ![e] = "call"]
    /\ UNCHANGED <<bindings, exported, imageVars, anchorVars, guideVars>>

\* line 9: integrations: [sitemap()]
EvalIntegrations(e) ==
    /\ pc[e] = "integrations"
    /\ "sitemap" \in bindings[e]
    /\ obj' = [obj EXCEPT ![e] = @ @@ ("integrations" :> <<sitemap>>)]
    /\ pc' = [pc EXCEPT ![e] = "call"]
    /\ UNCHANGED <<bindings, exported, imageVars, anchorVars, guideVars>>

\* the literal carries a fourth setting, output: "server"
ExportDefault_Extra(e) ==
    /\ pc[e] = "call"
    /\ "defineConfig" \in bindings[e]
    /\ exported' = [exported EXCEPT ![e] =
                      <<defineConfig(obj[e] @@ ("output" :> <<"s","e","r","v","e","r">>))>>]
    /\ pc' = [pc EXCEPT ![e] = "done"]
    /\ UNCHANGED <<bindings, obj, imageVars, anchorVars, guideVars>>

\* lines 6-10: export default defineConfig({...})
ExportDefault(e) ==
    /\ pc[e] = "call"
    /\ "defineConfig" \in bindings[e]
    /\ exported' = [exported EXCEPT ![e] = <<defineConfig(obj[e])>>]
    /\ pc' = [pc EXCEPT ![e] = "done"]
    /\ UNCHANGED <<bindings, obj, imageVars, anchorVars, guideVars>>

(***************************************************************************)
(* docs/visual-css.md, sections 4 and 5: the .image box                    *)
(***************************************************************************)
\* widest viewport considered, in px
MaxViewport == 1800

\* largest intrinsic width and height of a loaded bitmap, in px
MaxIntrinsic == 4

\* layout units per CSS px: 10 for 30vw = 3/10 px per viewport px, 3 for 4/3
UnitsPerPx == 10 * 3

Px(n) == n * UnitsPerPx

Max(a, b) == IF a >= b THEN a ELSE b
Min(a, b) == IF a <= b THEN a ELSE b

\* p% of a base length
Percent(p, base) == (p * base) \div 100

\* n vw: n% of the viewport width
Vw(n, viewportPx) == Percent(n, Px(viewportPx))

\* a clamp() without its upper bound
Clamp_NoUpper(lo, val, hi) == Max(lo, val)

\* CSS clamp(MIN, VAL, MAX) is max(MIN, min(VAL, MAX))
Clamp(lo, val, hi) == Max(lo, Min(val, hi))

\* section 4: width: clamp(240px, 30vw, 520px)
ImageWidth(viewportPx) == Clamp(Px(240), Vw(30, viewportPx), Px(520))

\* a box without aspect-ratio: no height until the bitmap gives its own ratio
BoxHeight_Intrinsic(width, img) ==
    IF img.loaded THEN (width * img.ih) \div img.iw ELSE 0

\* section 5: aspect-ratio: 3 / 4 (width / height), whatever the bitmap is
BoxHeight(width, img) == (width * 4) \div 3

Layout(viewportPx, img) ==
    [width  |-> ImageWidth(viewportPx),
     height |-> BoxHeight(ImageWidth(viewportPx), img)]

\* section 5: img { width: 100%; height: 100%; object-fit: cover }: the bitmap
\* keeps its own ratio and is scaled to the smallest size that covers the box;
\* its size is wn/den by hn/den layout units
Paint(b, img) ==
    IF ~img.loaded THEN [wn |-> 0, hn |-> 0, den |-> 1]
    ELSE IF img.iw * Percent(100, b.height) >= img.ih * Percent(100, b.width)
         THEN [wn |-> Percent(100, b.height) * img.iw,
               hn |-> Percent(100, b.height) * img.ih, den |-> img.ih]
         ELSE [wn |-> Percent(100, b.width) * img.iw,
               hn |-> Percent(100, b.width) * img.ih, den |-> img.iw]

NotLoaded == [loaded |-> FALSE, iw |-> 0, ih |-> 0]

\* first layout, before the window has been given a width; Resize reaches
\* every width from here
ImageInit ==
    /\ viewport = 0
    /\ image = NotLoaded
    /\ box = Layout(viewport, image)
    /\ painted = Paint(box, image)

\* the window is resized by d px
Resize(d) ==
    /\ viewport + d \in 0..MaxViewport
    /\ viewport' = viewport + d
    /\ box' = Layout(viewport', image)
    /\ painted' = Paint(box', image)
    /\ UNCHANGED <<image, configVars, anchorVars, guideVars>>

\* the bitmap arrives, iw by ih px
LoadImage(iw, ih) ==
    /\ ~image.loaded
    /\ image' = [loaded |-> TRUE, iw |-> iw, ih |-> ih]
    /\ box' = Layout(viewport, image')
    /\ painted' = Paint(box', image')
    /\ UNCHANGED <<viewport, configVars, anchorVars, guideVars>>

\* the src changes: back to no bitmap
ResetImage ==
    /\ image.loaded
    /\ image' = NotLoaded
    /\ box' = Layout(viewport, image')
    /\ painted' = Paint(box', image')
    /\ UNCHANGED <<viewport, configVars, anchorVars, guideVars>>

(***************************************************************************)
(* docs/visual-css.md, section 3: absolute child of a relative parent      *)
(***************************************************************************)
\* parent and child sizes lie on a 75px grid (odd and even px sizes)
MaxParent == 8
MaxElem == 4

ParentSizes == {Px(75 * k) : k \in 0..MaxParent}
ElemSizes == {Px(75 * k) : k \in 0..MaxElem}

\* translate() percentages resolved against the containing block
TranslateBase_Parent(p, el) == p

\* translate() percentages refer to the element's own reference box
TranslateBase(p, el) == el

\* top-left corner of the child relative to the parent's padding box
Position(r, p, el) ==
    IF r = "none"
    THEN \* section 1 alone: position: absolute with no offsets, the static position
         [x |-> 0, y |-> 0]
    ELSE IF r = "bad"
    THEN \* top: 200px; left: 300px
         [x |-> Px(300), y |-> Px(200)]
    ELSE \* top: 50%; left: 50%; transform: translate(-50%, -50%)
         [x |-> Percent(50, p.w) + Percent(-50, TranslateBase(p, el).w),
          y |-> Percent(50, p.h) + Percent(-50, TranslateBase(p, el).h)]

\* empty parent and child, neither snippet of section 3 applied yet
AnchorInit ==
    /\ parent = [w |-> 0, h |-> 0]
    /\ elem = [w |-> 0, h |-> 0]
    /\ rule = "none"
    /\ offset = Position(rule, parent, elem)

ResizeParent(w, h) ==
    /\ parent' = [w |-> w, h |-> h]
    /\ offset' = Position(rule, parent', elem)
    /\ UNCHANGED <<elem, rule, configVars, imageVars, guideVars>>

ResizeElem(w, h) ==
    /\ elem' = [w |-> w, h |-> h]
    /\ offset' = Position(rule, parent, elem')
    /\ UNCHANGED <<parent, rule, configVars, imageVars, guideVars>>

\* the stylesheet takes up, swaps or drops a snippet of section 3
ApplyRule(r) ==
    /\ r # rule
    /\ rule' = r
    /\ offset' = Position(r, parent, elem)
    /\ UNCHANGED <<parent, elem, configVars, imageVars, guideVars>>

(***************************************************************************)
(* docs/visual-css.md: the snippets of the guide                           *)
(***************************************************************************)
\* a value token: a keyword, or a number with its unit ("" for a bare number)
Kw(k) == [kw |-> k, n |-> "", u |-> ""]
Dim(n, u) == [kw |-> "", n |-> n, u |-> u]

\* one declaration; a transform or filter list gives one entry per function
Decl(sel, prop, fn, args) == [sel |-> sel, prop |-> prop, fn |-> fn, args |-> args]

\* the media condition of section 9's two snippets: @media (max-width: 768px)
MobileQuery == <<Decl("@media", "max-width", "", <<Dim("768", "px")>>)>>

\* the thirteen code blocks of the guide, in document order; mark is the label
\* the guide puts above the block
Guide == <<
    [section |-> 1, mark |-> "", media |-> <<>>, decls |-> <<
        Decl(".section", "position", "", <<Kw("relative")>>),
        Decl(".section", "overflow", "", <<Kw("hidden")>>),
        Decl(".image", "position", "", <<Kw("absolute")>>) >>],
    [section |-> 2, mark |-> "", media |-> <<>>, decls |-> <<
        Decl(".image", "transform", "translate", <<Dim("-10", "%"), Dim("5", "%")>>),
        Decl(".image", "transform", "scale", <<Dim("1.1", "")>>),
        Decl(".image", "transform", "rotate", <<Dim("-2", "deg")>>) >>],
    [section |-> 3, mark |-> "Bad", media |-> <<>>, decls |-> <<
        Decl("", "top", "", <<Dim("200", "px")>>),
        Decl("", "left", "", <<Dim("300", "px")>>) >>],
    [section |-> 3, mark |-> "Good", media |-> <<>>, decls |-> <<
        Decl("", "top", "", <<Dim("50", "%")>>),
        Decl("", "left", "", <<Dim("50", "%")>>),
        Decl("", "transform", "translate", <<Dim("-50", "%"), Dim("-50", "%")>>) >>],
    [section |-> 4, mark |-> "", media |-> <<>>, decls |-> <<
        Decl(".image", "width", "clamp",
             <<Dim("240", "px"), Dim("30", "vw"), Dim("520", "px")>>) >>],
    [section |-> 5, mark |-> "", media |-> <<>>, decls |-> <<
        Decl(".image", "aspect-ratio", "", <<Dim("3", ""), Kw("/"), Dim("4", "")>>) >>],
    [section |-> 5, mark |-> "", media |-> <<>>, decls |-> <<
        Decl("img", "width", "", <<Dim("100", "%")>>),
        Decl("img", "height", "", <<Dim("100", "%")>>),
        Decl("img", "object-fit", "", <<Kw("cover")>>) >>],
    [section |-> 6, mark |-> "", media |-> <<>>, decls |-> <<
        Decl("img", "object-position", "", <<Dim("70", "%"), Dim("30", "%")>>) >>],
    [section |-> 7, mark |-> "", media |-> <<>>, decls |-> <<
        Decl(".image--background", "transform", "scale", <<Dim("0.95", "")>>),
        Decl(".image--background", "opacity", "", <<Dim("0.6", "")>>),
        Decl(".image--foreground", "transform", "scale", <<Dim("1.05", "")>>) >>],
    [section |-> 7, mark |-> "Optional", media |-> <<>>, decls |-> <<
        Decl(".image--background", "filter", "blur", <<Dim("2", "px")>>) >>],
    [section |-> 8, mark |-> "", media |-> <<>>, decls |-> <<
        Decl(".section", "overflow", "", <<Kw("visible")>>),
        Decl(".mask", "overflow", "", <<Kw("hidden")>>),
        Decl(".mask", "border-radius", "", <<Dim("24", "px")>>) >>],
    [section |-> 9, mark |-> "Avoid", media |-> MobileQuery, decls |-> <<
        Decl(".image", "width", "", <<Dim("100", "%")>>) >>],
    [section |-> 9, mark |-> "Prefer", media |-> MobileQuery, decls |-> <<
        Decl(".image", "position", "", <<Kw("relative")>>),
        Decl(".image", "transform", "", <<Kw("none")>>),
        Decl(".image", "width", "", <<Dim("90", "vw")>>),
        Decl(".image", "margin-inline", "", <<Kw("auto")>>) >>] >>

Snippets == 1..Len(Guide)

\* every block counts as recommended, whatever its label
Recommended_AnyMark(s) == TRUE

\* a block the guide recommends: one it does not label Bad or Avoid
Recommended(s) == s.mark \notin {"Bad", "Avoid"}

\* everything a block writes: its media condition and its declarations
Written(s) == {s.media[i] : i \in DOMAIN s.media} \cup {s.decls[i] : i \in DOMAIN s.decls}

GuideInit == sheet = {}

\* a recommended block is copied into the site's stylesheet
Adopt(i) ==
    /\ i \notin sheet
    /\ Recommended(Guide[i])
    /\ sheet' = sheet \cup {i}
    /\ UNCHANGED <<configVars, imageVars, anchorVars>>

\* a block is taken out of the stylesheet again
Drop(i) ==
    /\ i \in sheet
    /\ sheet' = sheet \ {i}
    /\ UNCHANGED <<configVars, imageVars, anchorVars>>

(***************************************************************************)
(* Specifications                                                          *)
(***************************************************************************)
Init == ConfigInit /\ ImageInit /\ AnchorInit /\ GuideInit

Next ==
    \E e \in Evals :
        \/ Import(e)
        \/ EvalSite(e)
        \/ EvalAdapter(e)
        \/ EvalIntegrations(e)
        \/ ExportDefault(e)

Spec == Init /\ [][Next]_vars

NextImage ==
    \/ \E d \in {-100, -10, -1, 1, 10, 100} : Resize(d)
    \/ \E iw \in 1..MaxIntrinsic, ih \in 1..MaxIntrinsic : LoadImage(iw, ih)
    \/ ResetImage

SpecImage == Init /\ [][NextImage]_vars

NextAnchor ==
    \/ \E w \in ParentSizes, h \in ParentSizes : ResizeParent(w, h)
    \/ \E w \in ElemSizes, h \in ElemSizes : ResizeElem(w, h)
    \/ \E r \in {"none", "bad", "good"} : ApplyRule(r)

SpecAnchor == Init /\ [][NextAnchor]_vars

NextGuide ==
    \E i \in Snippets :
        \/ Adopt(i)
        \/ Drop(i)

SpecGuide == Init /\ [][NextGuide]_vars

(***************************************************************************)
(* URL reading, for the properties of the site origin                      *)
(***************************************************************************)
\* index of the first element of s at or after from that lies in chars, or 0
FirstOf(s, chars, from) ==
    IF \E i \in from..Len(s) : s[i] \in chars
    THEN CHOOSE i \in from..Len(s) :
             /\ s[i] \in chars
             /\ \A j \in from..(i - 1) : s[j] \notin chars
    ELSE 0

UrlScheme(s) ==
    LET c == FirstOf(s, {":"}, 1)
    IN  IF c = 0 THEN <<>> ELSE SubSeq(s, 1, c - 1)

\* what follows "scheme://", or <<>> when s has no such prefix
UrlAfterScheme(s) ==
    LET c == FirstOf(s, {":"}, 1)
    IN  IF c # 0 /\ c + 2 <= Len(s) /\ s[c + 1] = "/" /\ s[c + 2] = "/"
        THEN SubSeq(s, c + 3, Len(s))
        ELSE <<>>

UrlHost(s) ==
    LET r == UrlAfterScheme(s)
        e == FirstOf(r, {"/", "?", "#"}, 1)
    IN  IF e = 0 THEN r ELSE SubSeq(r, 1, e - 1)

\* path, query and fragment: what follows the host
UrlRest(s) ==
    LET r == UrlAfterScheme(s)
        e == FirstOf(r, {"/", "?", "#"}, 1)
    IN  IF e = 0 THEN <<>> ELSE SubSeq(r, e, Len(r))

IsHttpsOrigin(s) ==
    /\ UrlScheme(s) = <<"h","t","t","p","s">>
    /\ Len(UrlHost(s)) > 0
    /\ UrlRest(s) = <<>>

(***************************************************************************)
(* Properties                                                              *)
(***************************************************************************)
Settings == {"site", "adapter", "integrations"}

\* C1: every exported configuration has exactly the keys site, adapter and
\* integrations; site is "https://tedxuniversitasbrawijaya.com", adapter is the
\* Cloudflare adapter, and integrations holds the sitemap integration and
\* nothing else.
C1_ExactlyThreeSettings ==
    \A e \in Evals :
        exported[e] # <<>> =>
            LET c == exported[e][1]
            IN  /\ DOMAIN c = Settings
                /\ c.site = <<"h","t","t","p","s",":","/","/">>
                            \o <<"t","e","d","x">>
                            \o <<"u","n","i","v","e","r","s","i","t","a","s">>
                            \o <<"b","r","a","w","i","j","a","y","a">>
                            \o <<".","c","o","m">>
                /\ c.adapter.name = "@astrojs/cloudflare"
                /\ Len(c.integrations) = 1
                /\ c.integrations[1].name = "@astrojs/sitemap"

C1_Witness == \E e \in Evals : pc[e] = "done" /\ exported[e] # <<>>

\* C2: once an evaluation has exported its configuration no step changes it,
\* and any two evaluations that have exported, however their steps were
\* interleaved, hold equal configurations.
C2_StaticDeclaration ==
    /\ [][\A e \in Evals : exported[e] # <<>> => exported'[e] = exported[e]]_vars
    /\ [](\A e1, e2 \in Evals :
            exported[e1] # <<>> /\ exported[e2] # <<>> => exported[e1] = exported[e2])

C2_Witness ==
    \E e1, e2 \in Evals :
        /\ e1 # e2
        /\ exported[e1] # <<>>
        /\ exported[e2] # <<>>
        /\ \E e3 \in Evals : pc[e3] \notin {"import", "done"}

\* C3: the used width of the box is at least 240px and at most 520px, is 3/10
\* of the viewport width whenever that lies between the two, and never shrinks
\* when the viewport grows.
C3_ClampedWidth ==
    /\ [](/\ box.width >= 240 * UnitsPerPx
          /\ box.width <= 520 * UnitsPerPx
          /\ (/\ 240 * 10 <= 3 * viewport
              /\ 3 * viewport <= 520 * 10) => 10 * box.width = 3 * viewport * UnitsPerPx)
    /\ [][viewport' >= viewport => box'.width >= box.width]_vars

\* a viewport of 1733px: 30vw is 519.9px, just under the upper bound
C3_Witness == viewport = 1733 /\ box.width = 5199 * 3

\* C4: the statement of C4: every adopted (recommended) block positions with
\* transform only: none of its declarations is a margin or a top/left offset.
C4_TransformOnly ==
    \A i \in sheet :
        \A d \in Written(Guide[i]) :
            d.prop \notin {"top", "left", "margin", "margin-top", "margin-right",
                           "margin-bottom", "margin-left", "margin-inline",
                           "margin-block", "margin-inline-start", "margin-inline-end",
                           "margin-block-start", "margin-block-end"}

\* C5: under the Good snippet the centre of the child is the centre of the
\* parent on both axes, for every parent and child size; under the Bad snippet
\* the child sits at (300px, 200px) whatever the parent's size.
C5_CentredAnchor ==
    /\ rule = "good" =>
        /\ 2 * offset.x + elem.w = parent.w
        /\ 2 * offset.y + elem.h = parent.h
    /\ rule = "bad" =>
        /\ offset.x = 300 * UnitsPerPx
        /\ offset.y = 200 * UnitsPerPx

\* a 225px by 75px child in a 375px by 525px parent
C5_Witness ==
    /\ rule = "good"
    /\ parent = [w |-> 375 * UnitsPerPx, h |-> 525 * UnitsPerPx]
    /\ elem = [w |-> 225 * UnitsPerPx, h |-> 75 * UnitsPerPx]
    /\ offset = [x |-> 75 * UnitsPerPx, y |-> 225 * UnitsPerPx]

PositionalProps == {"top", "left", "right", "bottom"}
TranslateFns == {"translate", "translateX", "translateY", "translate3d"}
SizingProps == {"width", "height", "min-width", "max-width", "min-height", "max-height"}
DecorationProps == {"border-radius", "filter"}

HasPx(d) == \E k \in DOMAIN d.args : d.args[k].u = "px"

C7_NoLayoutShift ==
    /\ [](3 * box.height = 4 * box.width)
    /\ [][image'.loaded # image.loaded => box' = box]_vars
    /\ [](image.loaded =>
            /\ painted.wn >= box.width * painted.den
            /\ painted.hn >= box.height * painted.den
            /\ \/ painted.wn = box.width * painted.den
               \/ painted.hn = box.height * painted.den
            /\ painted.wn * image.ih = painted.hn * image.iw)

\* a landscape 4:1 bitmap loaded into the 300px by 400px box
C7_Witness ==
    /\ image = [loaded |-> TRUE, iw |-> 4, ih |-> 1]
    /\ viewport = 1000
    /\ box = [width |-> 300 * UnitsPerPx, height |-> 400 * UnitsPerPx]

\* C8: whenever the sitemap integration is in the integrations list of a
\* configuration, under construction or exported, its site is present and is
\* an https URL with a non-empty host and nothing after the host.
C8_SitemapHasOrigin ==
    \A e \in Evals :
        LET HasSitemap(c) ==
                /\ "integrations" \in DOMAIN c
                /\ \E k \in DOMAIN c.integrations : c.integrations[k].name = "@astrojs/sitemap"
            HasOrigin(c) == "site" \in DOMAIN c /\ IsHttpsOrigin(c.site)
        IN  /\ HasSitemap(obj[e]) => HasOrigin(obj[e])
            /\ exported[e] # <<>> /\ HasSitemap(exported[e][1]) => HasOrigin(exported[e][1])

C8_Witness ==
    \E e \in Evals :
        /\ exported[e] # <<>>
        /\ \E k \in DOMAIN exported[e][1].integrations :
               exported[e][1].integrations[k].name = "@astrojs/sitemap"

====
